---- MODULE Spec2Model ----
(***************************************************************************)
(* Maintenance-task / checklist lifecycle of nursery-maint.                *)
(*                                                                         *)
(* The state is the relational store the views of app/mainapp/views.py     *)
(* read and write: the MaintenanceTask, TaskChecklistItem,                 *)
(* ChecklistTemplate, ChecklistTemplateItem and Asset tables of            *)
(* mainapp/models.py.  A row's id is its index in the table's sequence     *)
(* (auto-increment primary keys, never reused).  Every view is one action: *)
(* the whole handler, from the load of the task to the final save.         *)
(*                                                                         *)
(* Columns no checked property reads (title, notes, scheduled_for,         *)
(* created_by, names) are not stored; the title is kept as a request input *)
(* because task_list creates nothing when it is blank.                     *)
(***************************************************************************)
EXTENDS Integers, Sequences, FiniteSets, TLC

VARIABLES now, tasks, checklist_items, templates, template_items, assets, last,
          inflight

vars == <<now, tasks, checklist_items, templates, template_items, assets, last, inflight>>

(* ------------------------------ bounds -------------------------------- *)
\* The clock's last instant, the rows a table may hold, and the checklist rows
\* of the task-lifecycle and answer-capture specifications.
MaxNow == 2
MaxTasks == 1
MaxChecklistItems == 2
MaxTemplateItems == 2
MaxEntries == 1
MaxAssets == 3
MaxToken == 4
MaxRequests == 2

(* --------------------------- program values --------------------------- *)
\* SQL NULL / Python None of the nullable columns (foreign keys, completed_at);
\* row ids and instants are >= 1.
None == 0

Sites == {1, 2}

STATUS_CHOICES == {"scheduled", "in_progress", "done", "cancelled"}

TYPE_CHOICES == {"yesno", "number", "text", "photo"}

\* str.strip() on the raw form values the requests below carry.
Strip(s) ==
    CASE s = " done " -> "done"
      [] s = " 7 "    -> "7"
      [] s = " "      -> ""
      [] OTHER        -> s

\* FieldFile of a task without a report (falsy).
NoReport == [stored |-> FALSE, completed |-> None, marker |-> FALSE]

\* Variant: the report is drawn without the no-entries line.
_build_task_report_pdf_unmarked(task, items) ==
    [stored    |-> TRUE,
     completed |-> task.completed_at,
     marker    |-> FALSE]

\* The document _build_task_report_pdf draws from the task object and the
\* items it is handed: the "Data esecuzione" line and, without checklist
\* entries, the "Nessuna voce in checklist." line.
_build_task_report_pdf(task, items) ==
    [stored    |-> TRUE,
     completed |-> task.completed_at,
     marker    |-> (items = <<>>)]

\* Model.save(update_fields=...): only the named columns of the row are written.
Save(stored, obj, update_fields) ==
    [f \in DOMAIN stored |-> IF f \in update_fields THEN obj[f] ELSE stored[f]]

\* get_object_or_404 on a table whose ids are 1..Len(table).
Exists(table, id) == id \in 1..Len(table)

(* ------------------------- request bookkeeping ------------------------ *)
\* The request served last: its action, its raw inputs and the response.  A
\* request for a task id that does not exist is answered 404 before anything
\* is read or written (get_object_or_404 at the head of the view): it is no step.
\* A save_answers request also carries the answer given for each item (values),
\* a request that may tag checklist items the asset id it names (asset_id), an
\* asset creation and a lookup the token drawn or asked for (token), a lookup
\* also the asset it resolved to (asset).
Request(op, task_id, status, template_id, close, response) ==
    [op |-> op, task_id |-> task_id, status |-> status, template_id |-> template_id,
     close |-> close, response |-> response]

(* ------------------------------ requests ------------------------------ *)
TaskIds == 1..Len(tasks)

\* Variant: the shortcut starts a task whatever its status.
start_task_any(task) ==
    [obj |-> [task EXCEPT !.status = "in_progress"], update_fields |-> {"status"}]

\* dashboard, action=start_task: the task object after the handler and the
\* columns it saves.
start_task(task) ==
    IF task.status \in {"scheduled", "in_progress"}
    THEN [obj |-> [task EXCEPT !.status = "in_progress"], update_fields |-> {"status"}]
    ELSE [obj |-> task, update_fields |-> {}]

DashboardStartTask(task_id) ==
    /\ Exists(tasks, task_id)
    /\ LET r == start_task(tasks[task_id]) IN
       tasks' = [tasks EXCEPT ![task_id] = Save(@, r.obj, r.update_fields)]
    /\ last' = Request("start_task", task_id, "", None, FALSE, "redirect")
    /\ UNCHANGED <<now, checklist_items, templates, template_items, assets, inflight>>

\* Variant: the status is stored without the membership test.
update_task_unchecked(task, raw_status, t) ==
    LET status == Strip(raw_status)
        stamp == status = "done" /\ (task.status # "done" \/ task.completed_at = None)
    IN [obj |-> [task EXCEPT !.status = status,
                             !.completed_at = IF stamp THEN t ELSE @],
        update_fields |-> IF stamp THEN {"status", "completed_at"} ELSE {"status"}]

\* Variant: every update to done stamps the completion time.
update_task_restamp(task, raw_status, t) ==
    LET status == Strip(raw_status) IN
    IF status \in STATUS_CHOICES
    THEN LET stamp == status = "done"
         IN [obj |-> [task EXCEPT !.status = status,
                                  !.completed_at = IF stamp THEN t ELSE @],
             update_fields |-> IF stamp THEN {"status", "completed_at"} ELSE {"status"}]
    ELSE [obj |-> task, update_fields |-> {}]

\* Variant: leaving done clears the completion time.
update_task_clearing(task, raw_status, t) ==
    LET status == Strip(raw_status) IN
    IF status \in STATUS_CHOICES
    THEN LET was_done == task.status = "done"
             stamp == status = "done" /\ (~was_done \/ task.completed_at = None)
         IN [obj |-> [task EXCEPT !.status = status,
                                  !.completed_at = IF stamp THEN t
                                                   ELSE IF status # "done" THEN None ELSE @],
             update_fields |-> {"status", "completed_at"}]
    ELSE [obj |-> task, update_fields |-> {}]

\* Variant: an update to done also draws and stores a report.
update_task_reporting(task, raw_status, t) ==
    LET status == Strip(raw_status) IN
    IF status \in STATUS_CHOICES
    THEN LET was_done == task.status = "done"
             stamp == status = "done" /\ (~was_done \/ task.completed_at = None)
             stamped == [task EXCEPT !.status = status,
                                     !.completed_at = IF stamp THEN t ELSE @]
         IN [obj |-> IF status = "done"
                     THEN [stamped EXCEPT !.report_pdf = _build_task_report_pdf(stamped, <<>>)]
                     ELSE stamped,
             update_fields |-> {"status", "completed_at", "report_pdf"}]
    ELSE [obj |-> task, update_fields |-> {}]

\* task_detail, action=update_task.
update_task(task, raw_status, t) ==
    LET status == Strip(raw_status) IN
    IF status \in STATUS_CHOICES
    THEN LET was_done == task.status = "done"
             stamp == status = "done" /\ (~was_done \/ task.completed_at = None)
         IN [obj |-> [task EXCEPT !.status = status,
                                  !.completed_at = IF stamp THEN t ELSE @],
             update_fields |-> IF stamp THEN {"status", "completed_at"} ELSE {"status"}]
    ELSE [obj |-> task, update_fields |-> {}]

TaskDetailUpdateTask(task_id, raw_status) ==
    /\ Exists(tasks, task_id)
    /\ LET r == update_task(tasks[task_id], raw_status, now) IN
       tasks' = [tasks EXCEPT ![task_id] = Save(@, r.obj, r.update_fields)]
    /\ last' = Request("update_task", task_id, raw_status, None, FALSE, "redirect")
    /\ UNCHANGED <<now, checklist_items, templates, template_items, assets, inflight>>

\* timezone.now() is read from a clock that moves between requests.
Tick ==
    /\ now < MaxNow
    /\ now' = now + 1
    /\ last' = Request("tick", None, "", None, FALSE, "")
    /\ UNCHANGED <<tasks, checklist_items, templates, template_items, assets, inflight>>

(* ------------------------------ checklist ----------------------------- *)
\* NULL of the nullable value columns (value_number, value_bool), which hold
\* strings here: a Decimal is kept as its literal, a boolean as "True"/"False".
Null == "NULL"

\* A TaskChecklistItem row as the model's defaults create it.
TaskChecklistItem(task_id, asset, template_item, label, item_type, required, unit) ==
    [task |-> task_id, asset |-> asset, template_item |-> template_item,
     label_snapshot |-> label, item_type |-> item_type, required |-> required,
     unit |-> unit,
     value_text |-> "", value_number |-> Null, value_bool |-> Null, attachment |-> ""]

\* Variant: the items come in id order, whatever their order column.
Ordering_by_id(rows, i, j) ==
    i < j

\* ChecklistTemplateItem.Meta.ordering = ["order", "id"].
Ordering(rows, i, j) ==
    \/ rows[i].order < rows[j].order
    \/ rows[i].order = rows[j].order /\ i < j

\* template.items.all(): the ids of the template's live items, in Meta order.
TemplateItems(rows, template_id) ==
    LET S == {i \in 1..Len(rows) : rows[i].alive /\ rows[i].template = template_id}
    IN CHOOSE s \in [1..Cardinality(S) -> S] :
           \A a, b \in 1..Cardinality(S) : a < b => Ordering(rows, s[a], s[b])

\* _create_checklist_from_template: the rows bulk_create inserts, in list order.
_create_checklist_from_template(task_id, template_id, asset) ==
    LET ids == TemplateItems(template_items, template_id) IN
    [k \in 1..Len(ids) |->
        LET item == template_items[ids[k]] IN
        TaskChecklistItem(task_id, asset, ids[k], item.label, item.item_type,
                          item.required, item.unit)]

\* Variant: the asset is looked up by id alone.
AssetAtSite_any_site(asset_id, site) ==
    IF asset_id # None /\ Exists(assets, asset_id) THEN asset_id ELSE None

\* Asset.objects.filter(id=asset_id, site=site).first() if asset_id else None
AssetAtSite(asset_id, site) ==
    IF asset_id # None /\ Exists(assets, asset_id) /\ assets[asset_id].site = site
    THEN asset_id ELSE None

\* task_detail, action=generate_checklist: the template the handler instantiates
\* on the task (None: none).
generate_checklist_template(task, template_id) ==
    template_id

\* task_list, action=create_task: the template kept after the site check.
create_task_template(site_id, template_id) ==
    IF templates[template_id].site # None /\ templates[template_id].site # site_id
    THEN None ELSE template_id

TaskDetailGenerateChecklist(task_id, template_id, asset_id) ==
    /\ Exists(tasks, task_id)
    /\ IF template_id = None
       THEN /\ checklist_items' = checklist_items
            /\ last' = Request("generate_checklist", task_id, "", template_id, FALSE, "redirect")
                        @@ [asset_id |-> asset_id]
       ELSE IF ~Exists(templates, template_id)
       THEN /\ checklist_items' = checklist_items
            /\ last' = Request("generate_checklist", task_id, "", template_id, FALSE, "404")
                        @@ [asset_id |-> asset_id]
       ELSE LET template == generate_checklist_template(tasks[task_id], template_id)
                asset == AssetAtSite(asset_id, tasks[task_id].site)
                rows == IF template = None THEN <<>>
                        ELSE _create_checklist_from_template(task_id, template, asset)
            IN /\ checklist_items' = checklist_items \o rows
               /\ last' = Request("generate_checklist", task_id, "", template_id, FALSE, "redirect")
                           @@ [asset_id |-> asset_id]
    /\ UNCHANGED <<now, tasks, templates, template_items, assets, inflight>>

\* The add_checklist_item forms submitted: label, item_type, required, unit.
AddItemForms ==
    {[label |-> " ",  item_type |-> "yesno",  required |-> "",   unit |-> ""],
     [label |-> "Q",  item_type |-> "yesno",  required |-> "on", unit |-> ""],
     [label |-> "Q",  item_type |-> "number", required |-> "",   unit |-> "mm"],
     [label |-> "Q",  item_type |-> "text",   required |-> "",   unit |-> ""],
     [label |-> "Q",  item_type |-> "photo",  required |-> "on", unit |-> ""],
     [label |-> "Q",  item_type |-> "video",  required |-> "",   unit |-> ""]}

\* task_detail, action=add_checklist_item: the rows the handler creates.
add_checklist_item(task_id, form, asset_id) ==
    LET label == Strip(form.label) IN
    IF label = "" THEN <<>>
    ELSE LET item_type == IF Strip(form.item_type) \in TYPE_CHOICES
                          THEN Strip(form.item_type) ELSE "yesno"
         IN << TaskChecklistItem(task_id, AssetAtSite(asset_id, tasks[task_id].site),
                                 None, label, item_type, form.required = "on",
                                 Strip(form.unit)) >>

TaskDetailAddChecklistItem(task_id, form, asset_id) ==
    /\ Exists(tasks, task_id)
    /\ LET rows == add_checklist_item(task_id, form, asset_id) IN
       checklist_items' = checklist_items \o rows
    /\ last' = Request("add_checklist_item", task_id, "", None, FALSE, "redirect")
                @@ [asset_id |-> asset_id]
    /\ UNCHANGED <<now, tasks, templates, template_items, assets, inflight>>

\* The value a save_answers form carries for one item (under the key of the
\* item's type), and the literals Decimal() accepts among them.
AnswerInputs == {"", "yes", "no", " 7 "}

DecimalLiterals == {"7"}

\* Variant: a number that does not parse is kept as the item's text.
save_answer_untyped(item, value, uploaded) ==
    CASE item.item_type = "yesno" ->
           [item EXCEPT !.value_bool = IF value = "yes" THEN "True"
                                       ELSE IF value = "no" THEN "False" ELSE Null]
      [] item.item_type = "number" ->
           IF Strip(value) \in DecimalLiterals
           THEN [item EXCEPT !.value_number = Strip(value)]
           ELSE [item EXCEPT !.value_number = Null, !.value_text = Strip(value)]
      [] item.item_type = "text" ->
           [item EXCEPT !.value_text = Strip(value)]
      [] item.item_type = "photo" ->
           [item EXCEPT !.attachment = IF uploaded THEN "upload" ELSE @]
      [] OTHER -> item

\* Variant: a number that does not parse leaves the stored number in place.
save_answer_keep(item, value, uploaded) ==
    CASE item.item_type = "yesno" ->
           [item EXCEPT !.value_bool = IF value = "yes" THEN "True"
                                       ELSE IF value = "no" THEN "False" ELSE Null]
      [] item.item_type = "number" ->
           [item EXCEPT !.value_number = IF Strip(value) = "" THEN Null
                                         ELSE IF Strip(value) \in DecimalLiterals
                                         THEN Strip(value) ELSE @]
      [] item.item_type = "text" ->
           [item EXCEPT !.value_text = Strip(value)]
      [] item.item_type = "photo" ->
           [item EXCEPT !.attachment = IF uploaded THEN "upload" ELSE @]
      [] OTHER -> item

\* task_detail, action=save_answers: one item after its branch of the loop.
save_answer(item, value, uploaded) ==
    CASE item.item_type = "yesno" ->
           [item EXCEPT !.value_bool = IF value = "yes" THEN "True"
                                       ELSE IF value = "no" THEN "False" ELSE Null]
      [] item.item_type = "number" ->
           [item EXCEPT !.value_number = IF Strip(value) # "" /\ Strip(value) \in DecimalLiterals
                                         THEN Strip(value) ELSE Null]
      [] item.item_type = "text" ->
           [item EXCEPT !.value_text = Strip(value)]
      [] item.item_type = "photo" ->
           [item EXCEPT !.attachment = IF uploaded THEN "upload" ELSE @]
      [] OTHER -> item

\* TaskChecklistItem.objects.filter(task=task): the ids of the task's rows.
ItemIdsOf(task_id) ==
    {i \in 1..Len(checklist_items) : checklist_items[i].task = task_id}

\* list(TaskChecklistItem.objects.filter(task=task)) after the loop has saved.
ItemsOf(rows, task_id) ==
    SelectSeq(rows, LAMBDA r : r.task = task_id)

\* Variant: the close saves the status and the report, never the stamp.
close_task_stamp_unsaved(task, items, t) ==
    LET completed_changed == task.status # "done" \/ task.completed_at = None
        stamped == [task EXCEPT !.completed_at = IF completed_changed THEN t ELSE @]
    IN [obj |-> [stamped EXCEPT !.report_pdf = _build_task_report_pdf(stamped, items),
                                !.status = "done"],
        update_fields |-> {"status", "report_pdf"}]

\* Variant: every close stamps the completion time.
close_task_restamp(task, items, t) ==
    LET stamped == [task EXCEPT !.completed_at = t]
    IN [obj |-> [stamped EXCEPT !.report_pdf = _build_task_report_pdf(stamped, items),
                                !.status = "done"],
        update_fields |-> {"status", "report_pdf", "completed_at"}]

\* task_detail, action=save_answers, close_task=1: the task object after the
\* handler and the columns it saves.
close_task(task, items, t) ==
    LET completed_changed == task.status # "done" \/ task.completed_at = None
        stamped == [task EXCEPT !.completed_at = IF completed_changed THEN t ELSE @]
    IN [obj |-> [stamped EXCEPT !.report_pdf = _build_task_report_pdf(stamped, items),
                                !.status = "done"],
        update_fields |-> IF completed_changed
                          THEN {"status", "report_pdf", "completed_at"}
                          ELSE {"status", "report_pdf"}]

TaskDetailSaveAnswers(task_id, values, files, close) ==
    /\ Exists(tasks, task_id)
    /\ LET saved == [i \in 1..Len(checklist_items) |->
                       IF checklist_items[i].task = task_id
                       THEN save_answer(checklist_items[i], values[i], i \in files)
                       ELSE checklist_items[i]]
           r == close_task(tasks[task_id], ItemsOf(saved, task_id), now)
       IN /\ checklist_items' = saved
          /\ tasks' = IF close
                      THEN [tasks EXCEPT ![task_id] = Save(@, r.obj, r.update_fields)]
                      ELSE tasks
    /\ last' = Request("save_answers", task_id, "", None, close, "redirect")
                    @@ [values |-> values]
    /\ UNCHANGED <<now, templates, template_items, assets, inflight>>

\* The create_task forms submitted: title and site_id.
TitleInputs == {"", "T"}

SiteIdInputs == 0..3

\* Variant: the new task is stored with the status as submitted.
create_task_status_as_given(raw_status) ==
    Strip(raw_status)

\* task_list, action=create_task: the status the new task is stored with.
create_task_status(raw_status) ==
    IF Strip(raw_status) \in STATUS_CHOICES THEN Strip(raw_status) ELSE "scheduled"

TaskListCreateTask(title, site_id, raw_status, template_id, asset_id) ==
    /\ IF title = "" \/ site_id = None
       THEN /\ tasks' = tasks
            /\ checklist_items' = checklist_items
            /\ last' = Request("create_task", None, raw_status, template_id, FALSE, "200")
                        @@ [asset_id |-> asset_id]
       ELSE IF site_id \notin Sites
       THEN /\ tasks' = tasks
            /\ checklist_items' = checklist_items
            /\ last' = Request("create_task", None, raw_status, template_id, FALSE, "404")
                        @@ [asset_id |-> asset_id]
       ELSE LET task == [site |-> site_id, status |-> create_task_status(raw_status),
                         completed_at |-> None, report_pdf |-> NoReport]
                task_id == Len(tasks) + 1
            IN /\ tasks' = Append(tasks, task)
               /\ IF template_id = None
                  THEN /\ checklist_items' = checklist_items
                       /\ last' = Request("create_task", task_id, raw_status, template_id, FALSE, "redirect")
                                   @@ [asset_id |-> asset_id]
                  ELSE IF ~Exists(templates, template_id)
                  THEN /\ checklist_items' = checklist_items
                       /\ last' = Request("create_task", task_id, raw_status, template_id, FALSE, "404")
                                   @@ [asset_id |-> asset_id]
                  ELSE LET template == create_task_template(site_id, template_id)
                           rows == IF template = None THEN <<>>
                                   ELSE _create_checklist_from_template(
                                            task_id, template, AssetAtSite(asset_id, site_id))
                       IN /\ checklist_items' = checklist_items \o rows
                          /\ last' = Request("create_task", task_id, raw_status, template_id, FALSE, "redirect")
                                      @@ [asset_id |-> asset_id]
    /\ UNCHANGED <<now, templates, template_items, assets, inflight>>

(* ------------------------- admin: template items ---------------------- *)
\* The question definitions the admin inline submits for a template item.
ItemForms ==
    {[label |-> "A", item_type |-> "number", required |-> TRUE,  unit |-> "mm"],
     [label |-> "B", item_type |-> "yesno",  required |-> FALSE, unit |-> ""]}

OrderInputs == {0, 1}

ChecklistTemplateItem(template_id, order, form) ==
    [template |-> template_id, order |-> order, label |-> form.label,
     item_type |-> form.item_type, required |-> form.required, unit |-> form.unit,
     alive |-> TRUE]

\* A deleted row: its id is not reused.
Deleted == [template |-> None, order |-> 0, label |-> "", item_type |-> "",
            required |-> FALSE, unit |-> "", alive |-> FALSE]

AdminAddTemplateItem(template_id, order, form) ==
    /\ template_items' = Append(template_items, ChecklistTemplateItem(template_id, order, form))
    /\ last' = Request("admin_add_template_item", None, "", template_id, FALSE, "")
    /\ UNCHANGED <<now, tasks, checklist_items, templates, assets, inflight>>

AdminChangeTemplateItem(id, order, form) ==
    /\ template_items[id].alive
    /\ template_items[id] # ChecklistTemplateItem(template_items[id].template, order, form)
    /\ template_items' = [template_items EXCEPT
                             ![id] = ChecklistTemplateItem(@.template, order, form)]
    /\ last' = Request("admin_change_template_item", None, "", template_items[id].template, FALSE, "")
    /\ UNCHANGED <<now, tasks, checklist_items, templates, assets, inflight>>

\* TaskChecklistItem.template_item is on_delete=SET_NULL.
AdminDeleteTemplateItem(id) ==
    /\ template_items[id].alive
    /\ template_items' = [template_items EXCEPT ![id] = Deleted]
    /\ checklist_items' = [i \in 1..Len(checklist_items) |->
                             IF checklist_items[i].template_item = id
                             THEN [checklist_items[i] EXCEPT !.template_item = None]
                             ELSE checklist_items[i]]
    /\ last' = Request("admin_delete_template_item", None, "", template_items[id].template, FALSE, "")
    /\ UNCHANGED <<now, tasks, templates, assets, inflight>>

(* ------------------------- interleaved requests ----------------------- *)
\* Requests are served by concurrent workers, each statement in its own
\* database transaction (autocommit; no ATOMIC_REQUESTS, no select_for_update).
\* A request on a task meets the store twice: when it loads the task and when
\* it saves it; in between it works on its own task object.  inflight holds,
\* per worker, the request being served: its inputs, its position, its task
\* object, the columns it will save, and whether another request has written
\* the task since this one loaded it (raced).
Slots == 1..MaxRequests

Idle == [pc |-> "idle"]

\* task = get_object_or_404(MaintenanceTask, id=task_id) of a start_task,
\* update_task or closing save_answers request.
Load(r, op, task_id, raw_status) ==
    /\ inflight[r].pc = "idle"
    /\ Exists(tasks, task_id)
    /\ inflight' = [inflight EXCEPT ![r] =
                       [pc |-> "loaded", op |-> op, task_id |-> task_id,
                        status |-> raw_status, obj |-> tasks[task_id],
                        update_fields |-> {}, raced |-> FALSE]]
    /\ UNCHANGED <<now, tasks, checklist_items, templates, template_items, assets, last>>

\* The handler's work between the load and the save: the status test, the
\* timezone.now() stamp, and for a close the answers of the checklist items
\* (saved one by one) and the report drawn from the request's task object.
Run(r) ==
    /\ inflight[r].pc = "loaded"
    /\ LET q == inflight[r]
           saved == [i \in 1..Len(checklist_items) |->
                       IF checklist_items[i].task = q.task_id
                       THEN save_answer(checklist_items[i], "", FALSE)
                       ELSE checklist_items[i]]
           res == CASE q.op = "start_task"   -> start_task(q.obj)
                    [] q.op = "update_task"  -> update_task(q.obj, q.status, now)
                    [] q.op = "save_answers" -> close_task(q.obj, ItemsOf(saved, q.task_id), now)
       IN /\ inflight' = [inflight EXCEPT ![r] =
                             [q EXCEPT !.pc = "built", !.obj = res.obj,
                                       !.update_fields = res.update_fields]]
          /\ checklist_items' = IF q.op = "save_answers" THEN saved ELSE checklist_items
    /\ UNCHANGED <<now, tasks, templates, template_items, assets, last>>

\* task.save(update_fields=...) and the redirect that ends the request.
Store(r) ==
    /\ inflight[r].pc = "built"
    /\ LET q == inflight[r] IN
       /\ tasks' = [tasks EXCEPT ![q.task_id] = Save(@, q.obj, q.update_fields)]
       /\ inflight' = [s \in Slots |->
                         IF s = r THEN Idle
                         ELSE IF inflight[s].pc # "idle" /\ inflight[s].task_id = q.task_id
                                 /\ q.update_fields # {}
                         THEN [inflight[s] EXCEPT !.raced = TRUE]
                         ELSE inflight[s]]
       /\ last' = Request(q.op, q.task_id, q.status, None, q.op = "save_answers", "redirect")
                       @@ [raced |-> q.raced]
    /\ UNCHANGED <<now, checklist_items, templates, template_items, assets>>

(* ----------------------------- admin: assets -------------------------- *)
\* AssetAdmin change form: the asset is moved to another site; qr_token is a
\* read-only field of the form and not editable on the model.
AdminChangeAsset(id, site) ==
    /\ Exists(assets, id)
    /\ assets[id].site # site
    /\ assets' = [assets EXCEPT ![id].site = site]
    /\ last' = Request("admin_change_asset", None, "", None, FALSE, "")
    /\ UNCHANGED <<now, tasks, checklist_items, templates, template_items, inflight>>

\* The values uuid.uuid4() draws for qr_token, and the tokens a URL can carry
\* (the uuid path converter lets well-formed tokens through only).
Tokens == 1..MaxToken

\* Variant: the qr_token column carries no unique constraint.
unique_qr_token_off(rows, token) ==
    TRUE

\* unique=True on Asset.qr_token: the INSERT of a row with this token passes.
unique_qr_token(rows, token) ==
    \A a \in 1..Len(rows) : rows[a].qr_token # token

\* AssetAdmin add form: qr_token takes its default, a fresh uuid4 draw; the
\* INSERT fails with IntegrityError when the constraint rejects the row.
AdminAddAsset(site, token) ==
    /\ IF unique_qr_token(assets, token)
       THEN /\ assets' = Append(assets, [site |-> site, qr_token |-> token])
            /\ last' = Request("admin_add_asset", None, "", None, FALSE, "redirect")
                            @@ [token |-> token]
       ELSE /\ assets' = assets
            /\ last' = Request("admin_add_asset", None, "", None, FALSE, "IntegrityError")
                            @@ [token |-> token]
    /\ UNCHANGED <<now, tasks, checklist_items, templates, template_items, inflight>>

\* asset_by_token: get_object_or_404(Asset, qr_token=token) answers 404 when no
\* row matches, raises MultipleObjectsReturned when several do, and renders the
\* one asset otherwise.
AssetByToken(token) ==
    /\ LET found == {a \in 1..Len(assets) : assets[a].qr_token = token} IN
       last' = Request("asset_by_token", None, "", None, FALSE,
                       IF found = {} THEN "404"
                       ELSE IF Cardinality(found) > 1 THEN "MultipleObjectsReturned"
                       ELSE "200")
                 @@ [token |-> token,
                     asset |-> IF Cardinality(found) = 1 THEN CHOOSE a \in found : TRUE
                               ELSE None]
    /\ UNCHANGED <<now, tasks, checklist_items, templates, template_items, assets, inflight>>

(* ---------------------------- environments ---------------------------- *)
\* The raw values the requests carry.  The three specifications below run the
\* same handlers over the same store; each lets the callers vary the inputs of
\* the part of the system it exercises and submits fixed forms elsewhere.
StatusInputs == {"scheduled", "in_progress", "done", "cancelled", " done ", "archived"}

TemplateIdInputs == 0..(Len(templates) + 1)

AssetIdInputs == 0..(Len(assets) + 1)

\* The store before the first request: two templates (one global, one of site
\* 1) and one asset per site, entered through the admin.
Fixture ==
    /\ now = 1
    /\ tasks = <<>>
    /\ checklist_items = <<>>
    /\ templates = <<[site |-> None], [site |-> 1]>>
    /\ assets = <<[site |-> 1, qr_token |-> 1], [site |-> 2, qr_token |-> 2]>>
    /\ last = Request("", None, "", None, FALSE, "")
    /\ inflight = [r \in Slots |-> Idle]

\* Task lifecycle: every status, every instant, closes and re-closes; the
\* global template holds one question, which is where the checklist items of
\* this specification come from.
Init ==
    /\ Fixture
    /\ template_items = << ChecklistTemplateItem(1, 0, [label |-> "B", item_type |-> "yesno",
                                                       required |-> FALSE, unit |-> ""]) >>

\* The tables stay within the bounds.
Bounded(max_items) ==
    /\ Len(tasks') <= MaxTasks
    /\ Len(checklist_items') <= max_items
    /\ Len(template_items') <= MaxTemplateItems

Next ==
    \/ Tick
    \/ \E task_id \in TaskIds : DashboardStartTask(task_id)
    \/ \E task_id \in TaskIds, s \in StatusInputs : TaskDetailUpdateTask(task_id, s)
    \/ \E task_id \in TaskIds :
          TaskDetailGenerateChecklist(task_id, 1, None) /\ Bounded(MaxEntries)
    \/ \E task_id \in TaskIds, close \in BOOLEAN :
          TaskDetailSaveAnswers(task_id, [i \in ItemIdsOf(task_id) |-> ""], {}, close)
    \/ \E s \in StatusInputs, template_id \in {None, 1} :
          TaskListCreateTask("T", 1, s, template_id, None) /\ Bounded(MaxEntries)

Spec == Init /\ [][Next]_vars

\* Checklist instantiation: tasks of both sites, every template, asset and
\* site id (also ids of no row), template items added, reordered, rewritten and
\* deleted through the admin.
InitChecklist ==
    /\ Fixture
    /\ template_items = <<>>

NextChecklist ==
    \/ \E title \in TitleInputs, site_id \in SiteIdInputs,
          template_id \in TemplateIdInputs, asset_id \in {None, 1} :
          /\ title = "" \/ site_id \notin Sites => template_id = None /\ asset_id = None
          /\ TaskListCreateTask(title, site_id, "scheduled", template_id, asset_id)
          /\ Bounded(MaxChecklistItems)
    \/ \E task_id \in TaskIds, template_id \in 1..Len(templates), asset_id \in {None, 1} :
          /\ TaskDetailGenerateChecklist(task_id, template_id, asset_id)
          /\ Bounded(MaxChecklistItems)
    \/ \E task_id \in TaskIds :
          /\ TaskDetailAddChecklistItem(task_id, [label |-> "Q", item_type |-> "text",
                                                  required |-> "", unit |-> ""], None)
          /\ Bounded(MaxChecklistItems)
    \/ \E template_id \in 1..Len(templates), order \in OrderInputs, form \in ItemForms :
          AdminAddTemplateItem(template_id, order, form) /\ Bounded(MaxChecklistItems)
    \/ \E id \in 1..Len(template_items), order \in OrderInputs, form \in ItemForms :
          AdminChangeTemplateItem(id, order, form)
    \/ \E id \in 1..Len(template_items) : AdminDeleteTemplateItem(id)

SpecChecklist == InitChecklist /\ [][NextChecklist]_vars

\* Answer capture: items of every type, ad hoc and from the global template,
\* every answer value and upload, saved with and without closing the task.
InitAnswers ==
    /\ Fixture
    /\ template_items = << ChecklistTemplateItem(1, 0, [label |-> "A", item_type |-> "number",
                                                       required |-> TRUE, unit |-> "mm"]) >>

NextAnswers ==
    \/ TaskListCreateTask("T", 1, "scheduled", None, None) /\ Bounded(MaxEntries)
    \/ \E task_id \in TaskIds :
          TaskDetailGenerateChecklist(task_id, 1, None) /\ Bounded(MaxEntries)
    \/ \E task_id \in TaskIds, form \in AddItemForms :
          TaskDetailAddChecklistItem(task_id, form, None) /\ Bounded(MaxEntries)
    \/ \E task_id \in TaskIds, close \in BOOLEAN :
          \E values \in [ItemIdsOf(task_id) -> AnswerInputs], files \in SUBSET ItemIdsOf(task_id) :
             TaskDetailSaveAnswers(task_id, values, files, close)

SpecAnswers == InitAnswers /\ [][NextAnswers]_vars

\* Answer batches: a task whose checklist holds a number and a yes/no question
\* of the global template, answered together in one save_answers request.
InitBatch ==
    /\ Fixture
    /\ template_items =
          << ChecklistTemplateItem(1, 0, [label |-> "A", item_type |-> "number",
                                          required |-> TRUE, unit |-> "mm"]),
             ChecklistTemplateItem(1, 1, [label |-> "B", item_type |-> "yesno",
                                          required |-> FALSE, unit |-> ""]) >>

NextBatch ==
    \/ Tick
    \/ TaskListCreateTask("T", 1, "scheduled", 1, None) /\ Bounded(MaxChecklistItems)
    \/ \E task_id \in TaskIds, close \in BOOLEAN :
          \E values \in [ItemIdsOf(task_id) -> AnswerInputs] :
             TaskDetailSaveAnswers(task_id, values, {}, close)

SpecBatch == InitBatch /\ [][NextBatch]_vars

\* Asset tagging: tasks of both sites, checklist items created on all three
\* paths with every asset id (none, the two assets, an id of no row), assets
\* moved between the sites through the admin.
NextAssets ==
    \/ \E site_id \in Sites, template_id \in {None, 1}, asset_id \in AssetIdInputs :
          /\ template_id = None => asset_id = None
          /\ TaskListCreateTask("T", site_id, "scheduled", template_id, asset_id)
          /\ Bounded(MaxEntries)
    \/ \E task_id \in TaskIds, asset_id \in AssetIdInputs :
          TaskDetailGenerateChecklist(task_id, 1, asset_id) /\ Bounded(MaxEntries)
    \/ \E task_id \in TaskIds, asset_id \in AssetIdInputs :
          /\ TaskDetailAddChecklistItem(task_id, [label |-> "Q", item_type |-> "text",
                                                  required |-> "", unit |-> ""], asset_id)
          /\ Bounded(MaxEntries)
    \/ \E id \in 1..Len(assets), site \in Sites : AdminChangeAsset(id, site)

SpecAssets == Init /\ [][NextAssets]_vars

\* Asset tokens: assets added and moved through the admin, every token drawn
\* and looked up.
NextTokens ==
    \/ \E site \in Sites, token \in Tokens :
          AdminAddAsset(site, token) /\ Len(assets') <= MaxAssets
    \/ \E id \in 1..Len(assets), site \in Sites : AdminChangeAsset(id, site)
    \/ \E token \in Tokens : AssetByToken(token)

SpecTokens == Init /\ [][NextTokens]_vars

\* Racing closes: close requests on one task served by concurrent workers.  The
\* closes in flight on a task race each other and nothing else: a close is
\* admitted while no save has landed on the task since the closes in flight
\* loaded it, and update_task requests are served while no close is in flight.
\* Tasks are created and updated as scheduled or done, which gives a close every
\* case of its stamp test (done or not, with and without a completion time).
NextCloseRace ==
    \/ Tick
    \/ \E s \in {"scheduled", "done"} :
          TaskListCreateTask("T", 1, s, None, None) /\ Bounded(MaxEntries)
    \/ \E task_id \in TaskIds, s \in {"scheduled", "done"} :
          /\ \A r \in Slots : inflight[r].pc = "idle"
          /\ TaskDetailUpdateTask(task_id, s)
    \/ \E r \in Slots, task_id \in TaskIds :
          /\ \A s \in Slots :
                inflight[s].pc # "idle" /\ inflight[s].task_id = task_id => ~inflight[s].raced
          /\ Load(r, "save_answers", task_id, "")
    \/ \E r \in Slots : Run(r)
    \/ \E r \in Slots : Store(r)

SpecCloseRace == Init /\ [][NextCloseRace]_vars

\* Racing requests: start, update_task and close requests on one task served by
\* concurrent workers in every interleaving of their loads and saves.
NextRace ==
    \/ Tick
    \/ \E s \in StatusInputs :
          TaskListCreateTask("T", 1, s, None, None) /\ Bounded(MaxEntries)
    \/ \E r \in Slots, task_id \in TaskIds :
          \/ Load(r, "start_task", task_id, "")
          \/ \E s \in STATUS_CHOICES : Load(r, "update_task", task_id, s)
          \/ Load(r, "save_answers", task_id, "")
    \/ \E r \in Slots : Run(r)
    \/ \E r \in Slots : Store(r)

SpecRace == Init /\ [][NextRace]_vars

(* ------------------------------ properties ---------------------------- *)
\* The step just taken served a close request (save_answers with close_task=1).
Closing == last'.op = "save_answers" /\ last'.close

\* C1: no checklist item of a task stems from a template scoped to a site other
\* than the task's site; a global template is instantiated for any site.
C1_TemplateOfTaskSite ==
    \A i \in 1..Len(checklist_items) :
        LET row == checklist_items[i] IN
        row.template_item # None =>
            LET template == templates[template_items[row.template_item].template] IN
            template.site = None \/ template.site = tasks[row.task].site

\* C2 as stated: an update_task request whose raw status value is not one of
\* the four codes leaves the task table as it was.
C2_RawStatusOutsideChoicesIsNoOp ==
    [][last'.op = "update_task" /\ last'.status \notin STATUS_CHOICES => tasks' = tasks]_vars

\* C2 amended: an update_task request whose status value, once surrounding
\* whitespace is stripped, is not one of the four codes leaves the task's
\* status, completed_at and report_pdf (the whole task table) as they were.
C2_UnrecognizedStatusIsNoOp ==
    [][last'.op = "update_task" /\ Strip(last'.status) \notin STATUS_CHOICES
          => tasks' = tasks /\ last'.response = "redirect"]_vars

C2_Witness ==
    /\ last.op = "update_task"
    /\ Strip(last.status) \notin STATUS_CHOICES
    /\ tasks[last.task_id].status = "done"
    /\ tasks[last.task_id].report_pdf.stored

\* C3: an update_task to done and a close stamp completed_at with the current
\* instant exactly when the task was not done or had no completion timestamp,
\* and leave it as it was otherwise; an update_task to any other status never
\* changes completed_at.
C3_StampOnFreshCompletion ==
    [][last'.op = "update_task" \/ Closing =>
          LET old == tasks[last'.task_id]
              new == tasks'[last'.task_id]
              to_done == Closing \/ Strip(last'.status) = "done"
          IN new.completed_at =
                 IF to_done /\ (old.status # "done" \/ old.completed_at = None)
                 THEN now ELSE old.completed_at]_vars

C3_Witness ==
    /\ last.op = "update_task"
    /\ Strip(last.status) = "done"
    /\ tasks[last.task_id].completed_at \notin {None, now}

\* C4 as stated: a close of a task that was closed before leaves a non-null
\* completed_at as it was.
C4_SecondCloseKeepsSetCompletion ==
    [][Closing /\ tasks[last'.task_id].report_pdf.stored
               /\ tasks[last'.task_id].completed_at # None
          => tasks'[last'.task_id].completed_at = tasks[last'.task_id].completed_at]_vars

\* C4 amended: a close of a task that was closed before leaves completed_at as
\* it was when it was non-null and the task was still done; when the task had
\* left done in between, the close stamps the current instant.
C4_SecondCloseOfDoneKeepsCompletion ==
    [][Closing /\ tasks[last'.task_id].report_pdf.stored
               /\ tasks[last'.task_id].completed_at # None
          => tasks'[last'.task_id].completed_at =
                 IF tasks[last'.task_id].status = "done"
                 THEN tasks[last'.task_id].completed_at ELSE now]_vars

C4_Witness ==
    /\ last.op = "save_answers" /\ last.close
    /\ tasks[last.task_id].completed_at \notin {None, now}
    /\ tasks[last.task_id].report_pdf.completed = tasks[last.task_id].completed_at

\* C5: a completion timestamp, once set, is never cleared.
C5_CompletionNeverCleared ==
    [][\A id \in 1..Len(tasks) :
          tasks[id].completed_at # None => tasks'[id].completed_at # None]_vars

C5_Witness ==
    \E id \in 1..Len(tasks) :
        /\ tasks[id].status \in {"scheduled", "in_progress", "cancelled"}
        /\ tasks[id].completed_at # None

\* C6: after a close the task is done, has a stored report and a completion
\* timestamp; without checklist items the report carries the no-entries marker.
C6_CloseCompletesTask ==
    last.op = "save_answers" /\ last.close =>
        LET task == tasks[last.task_id] IN
        /\ last.response = "redirect"
        /\ task.status = "done"
        /\ task.report_pdf.stored
        /\ task.completed_at # None
        /\ ItemIdsOf(last.task_id) = {} => task.report_pdf.marker

C6_Witness ==
    /\ last.op = "save_answers" /\ last.close
    /\ ItemIdsOf(last.task_id) = {}
    /\ tasks[last.task_id].report_pdf.marker
    /\ tasks[last.task_id].status = "done"

C8_StartShortcut ==
    [][last'.op = "start_task" =>
          LET old == tasks[last'.task_id]
              new == tasks'[last'.task_id]
          IN /\ new.status = IF old.status \in {"scheduled", "in_progress"}
                             THEN "in_progress" ELSE old.status
             /\ new.completed_at = old.completed_at
             /\ new.report_pdf = old.report_pdf
             /\ last.op = "start_task" /\ last.task_id = last'.task_id => tasks' = tasks]_vars

C8_Witness ==
    /\ last.op = "start_task"
    /\ tasks[last.task_id].status = "done"
    /\ tasks[last.task_id].report_pdf.stored

\* The step just taken instantiated a template on the task last'.task_id:
\* generate_checklist, or create_task with a template the site check kept.
Instantiating ==
    /\ last'.response = "redirect"
    /\ last'.template_id \in 1..Len(templates)
    /\ \/ last'.op = "generate_checklist"
       \/ /\ last'.op = "create_task"
          /\ templates[last'.template_id].site \in {None, tasks'[last'.task_id].site}

\* C9: instantiating a template adds one checklist item per live item of the
\* template, after the rows already there, in ascending order value with ties
\* by id, each carrying the template item's label, type, required flag and unit
\* and empty values; the snapshot columns of a row never change afterwards,
\* whatever happens to the template item.
C9_SnapshotOfTemplate ==
    [][/\ Instantiating =>
            LET n == Len(checklist_items)
                S == {q \in 1..Len(template_items) :
                         /\ template_items[q].alive
                         /\ template_items[q].template = last'.template_id}
                new == SubSeq(checklist_items', n + 1, Len(checklist_items'))
            IN /\ SubSeq(checklist_items', 1, n) = checklist_items
               /\ Len(new) = Cardinality(S)
               /\ {new[k].template_item : k \in 1..Len(new)} = S
               /\ \A k \in 1..Len(new) :
                     LET q == template_items[new[k].template_item] IN
                     /\ new[k].task = last'.task_id
                     /\ new[k].label_snapshot = q.label
                     /\ new[k].item_type = q.item_type
                     /\ new[k].required = q.required
                     /\ new[k].unit = q.unit
                     /\ new[k].value_text = "" /\ new[k].attachment = ""
                     /\ new[k].value_number = Null /\ new[k].value_bool = Null
               /\ \A a, b \in 1..Len(new) :
                     a < b =>
                        LET qa == template_items[new[a].template_item]
                            qb == template_items[new[b].template_item]
                        IN \/ qa.order < qb.order
                           \/ qa.order = qb.order /\ new[a].template_item < new[b].template_item
       /\ \A i \in 1..Len(checklist_items) :
             /\ i <= Len(checklist_items')
             /\ checklist_items'[i].label_snapshot = checklist_items[i].label_snapshot
             /\ checklist_items'[i].item_type = checklist_items[i].item_type
             /\ checklist_items'[i].required = checklist_items[i].required
             /\ checklist_items'[i].unit = checklist_items[i].unit]_vars

\* Two rows instantiated against id order, the first one's template item
\* rewritten since.
C9_Witness ==
    /\ Len(checklist_items) = 2
    /\ checklist_items[1].template_item # None
    /\ checklist_items[2].template_item # None
    /\ checklist_items[1].template_item > checklist_items[2].template_item
    /\ checklist_items[1].label_snapshot
           # template_items[checklist_items[1].template_item].label

\* C10: a checklist item holds a value at most in the column its type selects.
C10_OnlyTypedValuePopulated ==
    \A i \in 1..Len(checklist_items) :
        LET item == checklist_items[i] IN
        /\ item.item_type = "yesno" =>
              item.value_number = Null /\ item.value_text = "" /\ item.attachment = ""
        /\ item.item_type = "number" =>
              item.value_bool = Null /\ item.value_text = "" /\ item.attachment = ""
        /\ item.item_type = "text" =>
              item.value_bool = Null /\ item.value_number = Null /\ item.attachment = ""
        /\ item.item_type = "photo" =>
              item.value_bool = Null /\ item.value_number = Null /\ item.value_text = ""
        /\ item.item_type \in TYPE_CHOICES

C10_Witness ==
    /\ last.op = "save_answers" /\ last.close
    /\ \E i \in 1..Len(checklist_items) :
          /\ checklist_items[i].item_type = "number"
          /\ checklist_items[i].template_item = None
          /\ checklist_items[i].value_number # Null

\* C11: a save_answers request whose value for a number item is a non-empty
\* string that is no decimal literal leaves that item's value_number null,
\* whatever it held before; the request is answered normally, the yes/no items
\* of the same batch take their answers, and a requested close closes the task.
C11_UnparsableNumberCleared ==
    [][last'.op = "save_answers" =>
          /\ last'.response = "redirect"
          /\ \A i \in ItemIdsOf(last'.task_id) :
                LET value == last'.values[i] IN
                /\ checklist_items[i].item_type = "number"
                      /\ value # "" /\ Strip(value) \notin DecimalLiterals
                   => checklist_items'[i].value_number = Null
                /\ checklist_items[i].item_type = "yesno"
                   => checklist_items'[i].value_bool =
                         IF value = "yes" THEN "True"
                         ELSE IF value = "no" THEN "False" ELSE Null
          /\ last'.close =>
                /\ tasks'[last'.task_id].status = "done"
                /\ tasks'[last'.task_id].report_pdf.stored]_vars

\* A closing batch with a word for the number and "yes" for the yes/no question.
C11_Witness ==
    /\ last.op = "save_answers" /\ last.close
    /\ tasks[last.task_id].status = "done"
    /\ \E i, j \in ItemIdsOf(last.task_id) :
          /\ checklist_items[i].item_type = "number"
          /\ last.values[i] = "no"
          /\ checklist_items[i].value_number = Null
          /\ checklist_items[j].item_type = "yesno"
          /\ last.values[j] = "yes"
          /\ checklist_items[j].value_bool = "True"

\* C12: create_task with a template, generate_checklist and add_checklist_item
\* leave the rows already there as they were and tag each row they add with no
\* asset or with an asset that is of the task's site at that moment; when the
\* asset id named is of no asset or of an asset of another site, the rows added
\* carry no asset and the request is answered by the usual redirect.
C12_AssetOfTaskSite ==
    [][last'.op \in {"create_task", "generate_checklist", "add_checklist_item"}
          /\ last'.response = "redirect" =>
          LET n == Len(checklist_items)
              site == tasks'[last'.task_id].site
              at_site == {a \in 1..Len(assets) : assets[a].site = site}
          IN /\ SubSeq(checklist_items', 1, n) = checklist_items
             /\ \A i \in (n + 1)..Len(checklist_items') :
                   /\ checklist_items'[i].asset \in {None} \cup at_site
                   /\ last'.asset_id \notin at_site => checklist_items'[i].asset = None]_vars

\* A row just added for a request that named an asset of the other site.
C12_Witness ==
    /\ last.op \in {"create_task", "generate_checklist", "add_checklist_item"}
    /\ last.response = "redirect"
    /\ Exists(assets, last.asset_id)
    /\ assets[last.asset_id].site # tasks[last.task_id].site
    /\ Len(checklist_items) >= 1
    /\ checklist_items[Len(checklist_items)].task = last.task_id
    /\ checklist_items[Len(checklist_items)].asset = None

\* C13: no two assets carry the same qr_token; no step changes the qr_token of
\* an asset or removes an asset; the creation of an asset whose token is already
\* taken fails and adds no asset; a lookup by token answers not-found when no
\* asset carries the token and resolves to the one asset that carries it
\* otherwise.
C13_TokenUniqueAndStable ==
    /\ [](\A a, b \in 1..Len(assets) : a # b => assets[a].qr_token # assets[b].qr_token)
    /\ [][/\ \A a \in 1..Len(assets) :
                a <= Len(assets') /\ assets'[a].qr_token = assets[a].qr_token
          /\ last'.op = "admin_add_asset" =>
                IF \E a \in 1..Len(assets) : assets[a].qr_token = last'.token
                THEN assets' = assets /\ last'.response = "IntegrityError"
                ELSE /\ Len(assets') = Len(assets) + 1
                     /\ assets'[Len(assets')].qr_token = last'.token
          /\ last'.op = "asset_by_token" =>
                LET found == {a \in 1..Len(assets) : assets[a].qr_token = last'.token} IN
                IF found = {}
                THEN last'.response = "404" /\ last'.asset = None
                ELSE last'.response = "200" /\ found = {last'.asset}]_vars

\* A creation turned down for a token an asset already carries, with an asset
\* created beyond the first two.
C13_Witness ==
    /\ last.op = "admin_add_asset"
    /\ last.response = "IntegrityError"
    /\ Len(assets) >= 3
    /\ \E a \in 1..Len(assets) : assets[a].qr_token = last.token

\* C14 as stated: every task's status is one of the four codes; a new task is
\* stored with the status submitted when that value is one of the four and with
\* scheduled otherwise; the status of a task changes only in an update_task,
\* start or close request on that task.
C14_StatusAsSubmittedOrScheduled ==
    /\ [](\A id \in 1..Len(tasks) : tasks[id].status \in STATUS_CHOICES)
    /\ [][\A id \in 1..Len(tasks') :
             IF id \in 1..Len(tasks)
             THEN tasks'[id].status # tasks[id].status =>
                     /\ last'.task_id = id
                     /\ last'.op \in {"update_task", "start_task"} \/ Closing
             ELSE /\ last'.op = "create_task"
                  /\ tasks'[id].status = IF last'.status \in STATUS_CHOICES
                                         THEN last'.status ELSE "scheduled"]_vars

\* C14 amended: as above, with the status submitted taken after surrounding
\* whitespace is stripped.
C14_StatusAlwaysValid ==
    /\ [](\A id \in 1..Len(tasks) : tasks[id].status \in STATUS_CHOICES)
    /\ [][\A id \in 1..Len(tasks') :
             IF id \in 1..Len(tasks)
             THEN tasks'[id].status # tasks[id].status =>
                     /\ last'.task_id = id
                     /\ last'.op \in {"update_task", "start_task"} \/ Closing
             ELSE /\ last'.op = "create_task"
                  /\ tasks'[id].status = IF Strip(last'.status) \in STATUS_CHOICES
                                         THEN Strip(last'.status) ELSE "scheduled"]_vars

\* A task just created for a request that chose a status outside the four.
C14_Witness ==
    /\ last.op = "create_task"
    /\ last.status = "archived"
    /\ last.task_id = Len(tasks)
    /\ tasks[last.task_id].status = "scheduled"

\* The step just taken is the save of the request in flight on worker r.
Storing(r) == inflight[r].pc = "built" /\ inflight'[r].pc = "idle"

\* C15: when close requests on a task interleave, each save leaves the task
\* done with the report and the completion timestamp of the request that saved:
\* after the last save the task carries those of the last writer.
C15_LaterCloseWins ==
    [][\A r \in Slots :
          Storing(r) /\ inflight[r].op = "save_answers" =>
             LET task == tasks'[inflight[r].task_id] IN
             /\ task.status = "done"
             /\ task.report_pdf = inflight[r].obj.report_pdf
             /\ task.completed_at = inflight[r].obj.completed_at]_vars

\* A close has just saved over the save of another close that came in between
\* its load and its save; the task carries the later writer's stamp, which is
\* not the latest instant.
C15_Witness ==
    /\ last.op = "save_answers" /\ last.close /\ last.raced
    /\ tasks[last.task_id].status = "done"
    /\ tasks[last.task_id].report_pdf.stored
    /\ tasks[last.task_id].report_pdf.completed = tasks[last.task_id].completed_at
    /\ tasks[last.task_id].completed_at < now

\* C16: the completion time printed in the report a close request stores equals
\* the completed_at the store holds right after that request's save, in every
\* interleaving with other update_task and close requests on the task.
C16_ReportPrintsStoredCompletion ==
    [][\A r \in Slots :
          Storing(r) /\ inflight[r].op = "save_answers" =>
             LET task == tasks'[inflight[r].task_id] IN
             task.report_pdf.completed = task.completed_at]_vars

\* C17: a start request whose save finds the stored task done or cancelled
\* leaves it done or cancelled.
C17_StartKeepsTerminal ==
    [][\A r \in Slots :
          Storing(r) /\ inflight[r].op = "start_task"
                     /\ tasks[inflight[r].task_id].status \in {"done", "cancelled"}
             => tasks'[inflight[r].task_id].status \in {"done", "cancelled"}]_vars

\* C18: a create_task request answered not-found adds no task and no checklist
\* item.
C18_NotFoundCreatesNothing ==
    [][last'.op = "create_task" /\ last'.response = "404"
          => tasks' = tasks /\ checklist_items' = checklist_items]_vars

====
